---- MODULE Spec2Model ----
(***************************************************************************)
(* A model of src/src/cluster/divisive.py: the DivisiveCluster tree.      *)
(*                                                                         *)
(* A tree is a set of node objects, numbered in creation order (node 0 is *)
(* the root the user constructs first).  The external cluster model       *)
(* (graspy GaussianCluster / AutoGMMCluster, 1 or 2 components) is an     *)
(* oracle: each time a node fits one, the number of components it selects *)
(* and its hard labelling of the points are chosen nondeterministically.  *)
(* A fitted model labels a given point the same way every time it is      *)
(* asked (a mixture model's predict is a function of the row), so a       *)
(* fitted model is a function from points to {0, 1}.                       *)
(*                                                                         *)
(* A node name is the string of branch digits fit builds by               *)
(* concatenation; it is modelled as the sequence of its characters.        *)
(*                                                                         *)
(* fit is followed step by step (one frame per recursive call); predict    *)
(* and build_linkage are deterministic given the tree and are one action   *)
(* each.  Trees come from fit, or are built by hand with parent=..., which *)
(* is how a tree that fit would never build reaches build_linkage.         *)
(*                                                                         *)
(* The second half models src/src/traverse/random_walk.py: to_markov_matrix *)
(* and generate_random_walks, the latter followed statement by statement    *)
(* (one action per walk started, transition sampled and walk ended).  A     *)
(* probability is the exact fraction num/den; what np.random.choice returns *)
(* is a nondeterministic choice among the entries of positive probability. *)
(***************************************************************************)
EXTENDS Integers, Sequences, FiniteSets, TLC

\* ------------------------------------------------------------------ bounds
NPoints == 3        \* distinct rows (feature vectors) that exist
MaxDepth == 2       \* the oracle selects 2 components only above this depth
MaxMinSplit == 2    \* min_split_samples is drawn from 1..MaxMinSplit
MaxQuery == 3       \* predict is called with at most this many rows
MaxManual == 8      \* nodes a caller attaches by hand with parent=...
NVerts == 2         \* vertices of the graph the walks run on
MaxWeight == 2      \* edge weights of to_markov_matrix's input are 0..MaxWeight
MaxNWalks == 2      \* n_walks is drawn from 1..MaxNWalks
MaxWalk == 2        \* max_walk is drawn from -1..MaxWalk
NWorkers == 2       \* a parallel multistart runs on 1..NWorkers workers

Points == 1 .. NPoints
Labels == {0, 1}
None == -1
NoModel == << >>
Methods == {"graspy-gmm", "vmm", "kmeans"}

VARIABLES
    tree,               \* node id -> the node object's fields
    min_split_samples,  \* the constructor argument, copied to every child
    cluster_method,     \* the constructor argument, copied to every child
    stack,              \* the frames of the fit calls in progress, root first
    origin,             \* "new", "fit" (built by fit) or "manual"
    fit_error,          \* the exception the last fit call raised, or "none"
    pred,               \* what the last predict call did
    link                \* what the last build_linkage call did

tree_vars == <<tree, min_split_samples, cluster_method, stack, origin,
               fit_error, pred, link>>

VARIABLES
    adj,                \* the weighted adjacency matrix, vertex -> row
    prob_mat,           \* to_markov_matrix(adj) once computed, else << >>
    from_inds,          \* generate_random_walks' arguments ...
    out_inds,
    n_walks,
    max_walk,
    return_stuck,
    dead_inds,          \* ... and its locals
    stop_reasons,
    sm_paths,
    visit_orders,
    s_pos,              \* position of the outer loop in from_inds, from 1
    walk_n,             \* the inner loop's counter n
    curr_ind,
    n_steps,
    path,
    pc,                 \* "new", "ready", "loop", "walk", "done" or "raised"
    error,              \* the exception that ended the call, or "none"
    printed,            \* what line 49 printed
    walks,              \* history: every walk simulated, with its outcome
    draws,              \* history: the values np.random.choice returned
    seed,               \* the values the generator returns next when the
                        \* seed of an earlier call is set again; << >>: any
    first,              \* what the first of two calls returned, else << >>
    rw,                 \* the RandomWalk object of the notebooks, or NoWalker
    fast,               \* the build of _simulate_walk in a fast call, or "no"
    pool                \* the workers of a parallel multistart, or NoPool

call_vars == <<from_inds, out_inds, n_walks, max_walk, return_stuck>>
walk_vars == <<adj, prob_mat, call_vars, dead_inds, stop_reasons, sm_paths,
               visit_orders, s_pos, walk_n, curr_ind, n_steps, path, pc, error,
               printed, walks, draws, seed, first, rw, fast, pool>>

vars == <<tree_vars, walk_vars>>

Nodes == DOMAIN tree

\* ------------------------------------------------------------ constructor
\* DivisiveCluster.__init__: a node with no children, nothing fitted.
NewNode(nm, par) ==
    [name |-> nm, parent |-> par, children |-> << >>,
     fitted |-> FALSE, n_samples_ |-> 0, X |-> {},
     model_ |-> NoModel, n_components_ |-> 0,
     ind |-> None, n_clusters |-> None]

\* NodeMixin.parent setter: the new object becomes the last child of par.
AttachTo(t, par, nm) ==
    LET id == Cardinality(DOMAIN t)
    IN  [n \in (DOMAIN t) \cup {id} |->
            IF n = id THEN NewNode(nm, par)
            ELSE IF n = par
                 THEN [t[n] EXCEPT !.children = Append(@, id)]
                 ELSE t[n]]

NoResult == [status |-> "not called"]

\* No RandomWalk object is constructed.
NoWalker == [status |-> "none"]

\* No parallel multistart is running.
NoPool == [status |-> "none"]

\* Nothing of random_walk.py has run.
NoCall ==
    /\ prob_mat = << >>
    /\ from_inds = << >>
    /\ out_inds = {}
    /\ n_walks = 0
    /\ max_walk = 0
    /\ return_stuck = FALSE
    /\ dead_inds = {}
    /\ stop_reasons = << >>
    /\ sm_paths = << >>
    /\ visit_orders = << >>
    /\ s_pos = 0
    /\ walk_n = 0
    /\ curr_ind = None
    /\ n_steps = 0
    /\ path = << >>
    /\ pc = "new"
    /\ error = "none"
    /\ printed = << >>
    /\ walks = << >>
    /\ draws = << >>
    /\ seed = << >>
    /\ first = << >>
    /\ rw = NoWalker
    /\ fast = "no"
    /\ pool = NoPool

\* No graph is loaded: the tree is all there is.
NoGraph ==
    /\ adj = << >>
    /\ NoCall

Init ==
    /\ tree = [n \in {0} |-> NewNode(<< >>, None)]
    /\ min_split_samples \in 1 .. MaxMinSplit
    /\ cluster_method \in Methods
    /\ stack = << >>
    /\ origin = "new"
    /\ fit_error = "none"
    /\ pred = NoResult
    /\ link = NoResult
    /\ NoGraph

\* ------------------------------------------------------------------- fit
\* A faulty variant of FitsModel: the comparison made non-strict.
FitsModel_nonstrict(n_samples, min_split) == n_samples >= min_split

\* Line 34: a cluster model is fitted only on more than min_split_samples rows.
FitsModel(n_samples, min_split) == n_samples > min_split

\* A faulty variant of Recurses: the test inverted.
Recurses_inverted(n_components) == n_components = 1

\* Line 60: `cluster.n_components_ != 1` means recurse.
Recurses(n_components) == n_components /= 1

\* A faulty variant of XChildren: the second child given every row.
XChildren_overlap(X, model) ==
    << {x \in X : model[x] = 0}, X >>

\* Lines 61-62: indicator = pred_labels == 0;
\* X_children_ = (X[indicator, :], X[~indicator, :]).
XChildren(X, model) ==
    << {x \in X : model[x] = 0}, {x \in X : ~(model[x] = 0)} >>

\* Line 66: name = self.name + str(i).
ChildName(nm, i) == Append(nm, i)

\* The children setter of NodeMixin: the old children are detached, the new
\* ones attached in the order given.
SetChildren(t, node, kids) ==
    LET new == {kids[k] : k \in DOMAIN kids}
        old == {t[node].children[k] : k \in DOMAIN t[node].children}
    IN  [n \in DOMAIN t |->
            IF n = node THEN [t[n] EXCEPT !.children = kids]
            ELSE IF n \in new THEN [t[n] EXCEPT !.parent = node]
            ELSE IF n \in old THEN [t[n] EXCEPT !.parent = None]
            ELSE t[n]]

\* A call of fit in progress: the node, where the call is, its argument X, its
\* X_children_ and its local list `children`.  `reach` is the set of all rows
\* that the models of the node's ancestors route to the node.
Frame(node, X, reach) ==
    [node |-> node, pc |-> "enter", X |-> X, Xc |-> << >>, kids |-> << >>,
     reach |-> reach, rc |-> << >>]

\* What a fitted two-component model may answer.  predict reads a node's model
\* only for rows routed to the node, so the labels of the other rows, which
\* nothing ever reads, are fixed: the same tree is not counted twice.
FittedModels(reach) ==
    {m \in [Points -> Labels] : \A p \in Points \ reach : m[p] = 0}

Top == stack[Len(stack)]

\* `return self` of the top frame (line 75): the caller, if it is a fit call
\* too, appends the returned child to its local list (line 73).
Return(st) ==
    LET rest == SubSeq(st, 1, Len(st) - 1)
    IN  IF rest = << >> THEN rest
        ELSE [rest EXCEPT ![Len(rest)].kids = Append(@, st[Len(st)].node)]

\* Lines 31-33, common to every call of fit.
Entered(t, node, X) ==
    [t EXCEPT ![node].fitted = TRUE,
              ![node].n_samples_ = Cardinality(X),
              ![node].X = X]

\* The caller's root.fit(X) on a freshly constructed root.
FitBegin ==
    /\ UNCHANGED walk_vars
    /\ origin = "new"
    /\ stack = << >>
    /\ \E X \in SUBSET Points : stack' = << Frame(0, X, Points) >>
    /\ origin' = "fit"
    /\ fit_error' = "none"
    /\ UNCHANGED <<tree, min_split_samples, cluster_method, pred, link>>

\* The caller's root.fit(X) once more, on the root an earlier fit returned.
FitAgain ==
    /\ UNCHANGED walk_vars
    /\ origin = "fit"
    /\ stack = << >>
    /\ \E X \in SUBSET Points : stack' = << Frame(0, X, Points) >>
    /\ origin' = "refit"
    /\ fit_error' = "none"
    /\ UNCHANGED <<tree, min_split_samples, cluster_method, pred, link>>

\* Lines 31-34, 75: at most min_split_samples rows, nothing more happens.
FitLeaf ==
    /\ UNCHANGED walk_vars
    /\ stack /= << >>
    /\ Top.pc = "enter"
    /\ ~FitsModel(Cardinality(Top.X), min_split_samples)
    /\ tree' = Entered(tree, Top.node, Top.X)
    /\ stack' = Return(stack)
    /\ UNCHANGED <<min_split_samples, cluster_method, origin, fit_error,
                   pred, link>>

\* Lines 46-51: "vmm" constructs nothing and cluster.fit fails on the unbound
\* name; any other unknown method raises ValueError.  The exception unwinds
\* every fit call in progress.
FitRaise ==
    /\ UNCHANGED walk_vars
    /\ stack /= << >>
    /\ Top.pc = "enter"
    /\ FitsModel(Cardinality(Top.X), min_split_samples)
    /\ cluster_method \notin {"graspy-gmm", "auto-gmm"}
    /\ tree' = Entered(tree, Top.node, Top.X)
    /\ fit_error' = IF cluster_method = "vmm" THEN "UnboundLocalError"
                                               ELSE "ValueError"
    /\ stack' = << >>
    /\ UNCHANGED <<min_split_samples, cluster_method, origin, pred, link>>

\* The numbers of components the model may select at a node: 1 or 2, and only
\* 1 from depth MaxDepth on (the bound on the tree's depth).
Selectable(node) ==
    IF Len(tree[node].name) < MaxDepth THEN {1, 2} ELSE {1}

\* Lines 35-62, 75: a model is constructed and fitted; it selects one
\* component (every row labelled 0) and fit returns, or two and fit goes on to
\* the children.
FitModel ==
    /\ UNCHANGED walk_vars
    /\ stack /= << >>
    /\ Top.pc = "enter"
    /\ FitsModel(Cardinality(Top.X), min_split_samples)
    /\ cluster_method \in {"graspy-gmm", "auto-gmm"}
    /\ \E n_components \in Selectable(Top.node) :
       \E m \in IF n_components = 1 THEN {[p \in Points |-> 0]}
                                    ELSE FittedModels(Top.reach) :
        /\ LET t1 == Entered(tree, Top.node, Top.X)
           IN  tree' = [t1 EXCEPT ![Top.node].model_ = m,
                                  ![Top.node].n_components_ = n_components]
        /\ stack' = IF Recurses(n_components)
                    THEN [stack EXCEPT
                            ![Len(stack)].pc = "loop",
                            ![Len(stack)].Xc = XChildren(Top.X, m),
                            ![Len(stack)].rc = XChildren(Top.reach, m)]
                    ELSE Return(stack)
    /\ UNCHANGED <<min_split_samples, cluster_method, origin, fit_error,
                   pred, link>>

\* Lines 64-72: the next child is constructed with parent=self, which attaches
\* it at once, and its fit is called.
FitChild ==
    /\ UNCHANGED walk_vars
    /\ stack /= << >>
    /\ Top.pc = "loop"
    /\ Len(Top.kids) < 2
    /\ LET i == Len(Top.kids)
           id == Cardinality(Nodes)
       IN  /\ tree' = AttachTo(tree, Top.node,
                               ChildName(tree[Top.node].name, i))
           /\ stack' = Append(stack, Frame(id, Top.Xc[i + 1], Top.rc[i + 1]))
    /\ UNCHANGED <<min_split_samples, cluster_method, origin, fit_error,
                   pred, link>>

\* Lines 74-75: self.children = children; return self.
FitFinish ==
    /\ UNCHANGED walk_vars
    /\ stack /= << >>
    /\ Top.pc = "loop"
    /\ Len(Top.kids) = 2
    /\ tree' = SetChildren(tree, Top.node, Top.kids)
    /\ stack' = Return(stack)
    /\ UNCHANGED <<min_split_samples, cluster_method, origin, fit_error,
                   pred, link>>

\* A caller builds a tree by hand, DivisiveCluster(parent=p), before
\* calling anything on it.  The numbers of the nodes mean nothing, so the
\* caller creates them level by level, left to right: every shape of tree is
\* reached, once.  Nothing but fit reads min_split_samples or cluster_method,
\* so hand-built trees are explored for one choice of the two.
Construct ==
    /\ UNCHANGED walk_vars
    /\ origin \in {"new", "manual"}
    /\ stack = << >>
    /\ pred = NoResult
    /\ link = NoResult
    /\ min_split_samples = 1
    /\ cluster_method = "graspy-gmm"
    /\ Cardinality(Nodes) <= MaxManual
    /\ \E p \in Nodes :
        /\ p >= tree[Cardinality(Nodes) - 1].parent
        /\ tree' = AttachTo(tree, p, << >>)
    /\ origin' = "manual"
    /\ UNCHANGED <<min_split_samples, cluster_method, stack, fit_error,
                   pred, link>>

\* --------------------------------------------------------------- predict
\* A numpy dtype: float64 (what np.array([]) has) or '<Uk', strings of at most
\* k characters.
Float64 == [kind |-> "float64", size |-> 0]
Unicode(k) == [kind |-> "U", size |-> k]

\* np.can_cast(a, b) under the default 'safe' rule: a string type casts to a
\* string type at least as wide.  A string never casts safely to float64, and
\* float64 casts to '<Uk' for no k below 32 (for no k at all in the numpy
\* releases of the repository's time); node names here are shorter than that.
CanCast(a, b) ==
    IF a.kind = "U" /\ b.kind = "U" THEN a.size <= b.size
    ELSE a.kind = "float64" /\ b.kind = "float64"

\* Storing a string in an array of dtype '<Uk' keeps its first k characters.
Cast(v, dtype) ==
    IF Len(v) <= dtype.size THEN v ELSE SubSeq(v, 1, dtype.size)

\* Line 109: np.array(n * [self.name]).  The empty list gives a float64 array;
\* otherwise the width is the name's length, and at least 1.
LeafDtype(nm, n) ==
    IF n = 0 THEN Float64
    ELSE Unicode(IF Len(nm) < 1 THEN 1 ELSE Len(nm))

LeafPrediction(nm, n) ==
    [status |-> "ok", dtype |-> LeafDtype(nm, n),
     vals |-> [i \in 1 .. n |-> Cast(nm, LeafDtype(nm, n))], empty |-> {}]

Raised(exc, emptyCalls) ==
    [status |-> exc, dtype |-> Float64, vals |-> << >>, empty |-> emptyCalls]

\* X[mask == b]: the rows of s at the positions where mask is b, in order.
RECURSIVE Pick(_, _, _)
Pick(s, mask, b) ==
    IF s = << >> THEN << >>
    ELSE LET rest == Pick(Tail(s), Tail(mask), b)
         IN  IF Head(mask) = b THEN << Head(s) >> \o rest ELSE rest

\* Lines 119-126: the dtype of the merged array, or the ValueError.
MergeDtype(left, right) ==
    IF CanCast(left, right) THEN [ok |-> TRUE, dtype |-> right]
    ELSE IF CanCast(right, left) THEN [ok |-> TRUE, dtype |-> left]
    ELSE [ok |-> FALSE, dtype |-> Float64]

\* The number of positions up to i where mask is b.
RECURSIVE CountUpTo(_, _, _)
CountUpTo(mask, i, b) ==
    IF i = 0 THEN 0
    ELSE CountUpTo(mask, i - 1, b) + (IF mask[i] = b THEN 1 ELSE 0)

\* Lines 121-128: preds = np.zeros(n, dtype); preds[indicator] = left_preds;
\* preds[~indicator] = right_preds.
Scatter(indicator, left_vals, right_vals, dtype) ==
    [i \in 1 .. Len(indicator) |->
        IF indicator[i]
        THEN Cast(left_vals[CountUpTo(indicator, i, TRUE)], dtype)
        ELSE Cast(right_vals[CountUpTo(indicator, i, FALSE)], dtype)]

\* Lines 107-129.  A model asked to predict zero rows is code outside the
\* repository: it may raise (emptyRaises) or return no labels.  `empty`
\* collects the nodes whose model was asked to predict zero rows.
RECURSIVE PredictNode(_, _, _, _)
PredictNode(t, n, Xq, emptyRaises) ==
    IF t[n].children = << >> THEN LeafPrediction(t[n].name, Len(Xq))
    ELSE IF t[n].model_ = NoModel THEN Raised("AttributeError", {})
    ELSE IF Xq = << >> /\ emptyRaises THEN Raised("ModelError", {n})
    ELSE
      LET here == IF Xq = << >> THEN {n} ELSE {}
          node_preds == [i \in 1 .. Len(Xq) |-> t[n].model_[Xq[i]]]
          indicator == [i \in 1 .. Len(Xq) |-> node_preds[i] = 0]
          left == PredictNode(t, t[n].children[1],
                              Pick(Xq, indicator, TRUE), emptyRaises)
      IN  IF left.status /= "ok" THEN Raised(left.status, here \cup left.empty)
          ELSE IF Len(t[n].children) < 2
               THEN Raised("IndexError", here \cup left.empty)
          ELSE
            LET right == PredictNode(t, t[n].children[2],
                                     Pick(Xq, indicator, FALSE), emptyRaises)
                both == here \cup left.empty \cup right.empty
                md == MergeDtype(left.dtype, right.dtype)
            IN  IF right.status /= "ok" THEN Raised(right.status, both)
                ELSE IF ~md.ok THEN Raised("ValueError", both)
                ELSE [status |-> "ok", dtype |-> md.dtype,
                      vals |-> Scatter(indicator, left.vals, right.vals,
                                       md.dtype),
                      empty |-> both]

Queries == UNION {[1 .. k -> Points] : k \in 0 .. MaxQuery}

\* The caller's root.predict(X); pred keeps the tree it ran on and whether fit
\* built it.  predict changes no node, so one call from
\* each tree reaches every outcome a later call could have.
Predict ==
    /\ UNCHANGED walk_vars
    /\ stack = << >>
    /\ pred = NoResult
    /\ \E Xq \in Queries, emptyRaises \in BOOLEAN :
        LET r == PredictNode(tree, 0, Xq, emptyRaises)
        IN  pred' = [status |-> r.status, dtype |-> r.dtype, vals |-> r.vals,
                     empty |-> r.empty, X |-> Xq, t |-> tree,
                     fit_tree |-> (origin = "fit")]
    /\ UNCHANGED <<tree, min_split_samples, cluster_method, stack, origin,
                   fit_error, link>>

\* --------------------------------------------------------- build_linkage
\* The children of the nodes of a level, in order: the next level.
RECURSIVE ChildrenOf(_, _)
ChildrenOf(t, group) ==
    IF group = << >> THEN << >>
    ELSE t[Head(group)].children \o ChildrenOf(t, Tail(group))

\* anytree's LevelOrderGroupIter: the nodes of each depth, left to right.
RECURSIVE LevelOrderGroupIter(_, _)
LevelOrderGroupIter(t, group) ==
    IF group = << >> THEN << >>
    ELSE << group >> \o LevelOrderGroupIter(t, ChildrenOf(t, group))

Reversed(s) == [i \in 1 .. Len(s) |-> s[Len(s) + 1 - i]]

\* A faulty variant of LevelsToProcess: top-down, the reversal forgotten.
LevelsToProcess_topdown(levels) ==
    SubSeq(levels, 2, Len(levels))

\* Line 161: levels[::-1][:-1], the levels bottom-up without the root's.
LevelsToProcess(levels) ==
    SubSeq(Reversed(levels), 1, Len(levels) - 1)

\* Lines 151-154: the nodes below (and including) the root without children.
NumLeaves(t) ==
    LET levels == LevelOrderGroupIter(t, << 0 >>)
    IN  Cardinality({n \in DOMAIN t :
            /\ \E l \in DOMAIN levels : \E k \in DOMAIN levels[l] :
                    levels[l][k] = n
            /\ t[n].children = << >>})

\* anytree.util.leftsibling: the child just before the node under the same
\* parent, None for a first child or a root.
LeftSibling(t, n) ==
    IF t[n].parent = None THEN None
    ELSE LET pchildren == t[t[n].parent].children
             idx == CHOOSE k \in DOMAIN pchildren : pchildren[k] = n
         IN  IF idx = 1 THEN None ELSE pchildren[idx - 1]

\* A faulty variant of ArePartners: the assertion dropped.
ArePartners_unchecked(t, left_node, right_node) == TRUE

\* Line 167: assert leftsibling(right_node) == left_node.
ArePartners(t, left_node, right_node) ==
    LeftSibling(t, right_node) = left_node

\* Line 188: parent_node._ind = link_count + num_leaves.
ParentInd(link_count, num_leaves) == link_count + num_leaves

\* A faulty variant of Distance: one height for every link.
Distance_flat(g) == 1

\* Line 192: distance = g + 1.
Distance(g) == g + 1

\* A faulty variant of NClusters: the merged nodes counted, not their leaves.
NClusters_pair(left_clusters, right_clusters) == 2

\* Line 184: n_clusters = left_node._n_clusters + right_node._n_clusters.
NClusters(left_clusters, right_clusters) == left_clusters + right_clusters

\* A faulty variant of MarkLeaf: a leaf counted as its samples, not as 1.
MarkLeaf_samples(st, n) ==
    IF st.t[n].children /= << >> THEN st
    ELSE [st EXCEPT !.t[n].ind = st.node_index,
                    !.t[n].n_clusters = st.t[n].n_samples_,
                    !.node_index = @ + 1,
                    !.labels = Append(@, st.t[n].name)]

\* A faulty variant of MarkLeaf: a leaf that has an index from an earlier call
\* is taken as marked already.
MarkLeaf_once(st, n) ==
    IF st.t[n].children /= << >> \/ st.t[n].ind /= None THEN st
    ELSE [st EXCEPT !.t[n].ind = st.node_index,
                    !.t[n].n_clusters = 1,
                    !.node_index = @ + 1,
                    !.labels = Append(@, st.t[n].name)]

\* Lines 170-180: a node without children takes the next leaf index.
MarkLeaf(st, n) ==
    IF st.t[n].children /= << >> THEN st
    ELSE [st EXCEPT !.t[n].ind = st.node_index,
                    !.t[n].n_clusters = 1,
                    !.node_index = @ + 1,
                    !.labels = Append(@, st.t[n].name)]

\* A faulty variant of Implemented: a distance for either choice.
Implemented_both(bic_distance) == TRUE

\* Lines 191-194: only the equal-height distance is implemented; the other
\* branch raises NotImplementedError.
Implemented(bic_distance) == ~bic_distance

\* Lines 163-205: one pass of the inner loop, on the pair (left, right) of the
\* g-th level from the bottom.  `pairs` and `assigned` record, for each row
\* emitted, the two nodes it merges and how many leaf indices were assigned
\* by then; `failed` is the pair an exception was raised on.
MergePair(st, g, left_node, right_node, bic_distance) ==
    IF ~ArePartners(st.t, left_node, right_node)
    THEN [st EXCEPT !.status = "AssertionError",
                    !.failed = << left_node, right_node >>]
    ELSE
      LET s2 == MarkLeaf(MarkLeaf(st, left_node), right_node)
          parent_node == s2.t[left_node].parent
      IN  IF s2.t[left_node].n_clusters = None
             \/ s2.t[right_node].n_clusters = None
          THEN [s2 EXCEPT !.status = "AttributeError",
                          !.failed = << left_node, right_node >>]
          ELSE
            LET n_clusters == NClusters(s2.t[left_node].n_clusters,
                                        s2.t[right_node].n_clusters)
                s3 == [s2 EXCEPT
                         !.t[parent_node].n_clusters = n_clusters,
                         !.t[parent_node].ind =
                             ParentInd(s2.link_count, s2.num_leaves),
                         !.link_count = @ + 1]
            IN  IF ~Implemented(bic_distance)
                THEN [s3 EXCEPT !.status = "NotImplementedError",
                                !.failed = << left_node, right_node >>]
                ELSE [s3 EXCEPT
                        !.linkages = Append(@,
                            << s3.t[left_node].ind, s3.t[right_node].ind,
                               Distance(g), n_clusters >>),
                        !.pairs = Append(@, << left_node, right_node >>),
                        !.assigned = Append(@, s3.node_index)]

\* Line 162: for i in range(len(group) // 2), until an exception.
RECURSIVE MergeGroup(_, _, _, _, _)
MergeGroup(st, group, g, i, bic_distance) ==
    IF st.status /= "ok" \/ i >= Len(group) \div 2 THEN st
    ELSE MergeGroup(
            MergePair(st, g, group[2 * i + 1], group[2 * i + 2], bic_distance),
            group, g, i + 1, bic_distance)

\* Line 161: for g, group in enumerate(...), until an exception.
RECURSIVE MergeLevels(_, _, _, _)
MergeLevels(st, groups, g, bic_distance) ==
    IF st.status /= "ok" \/ g >= Len(groups) THEN st
    ELSE MergeLevels(MergeGroup(st, groups[g + 1], g, 0, bic_distance),
                     groups, g + 1, bic_distance)

\* Lines 143-209.
BuildLinkageRun(t, bic_distance) ==
    LET levels == LevelOrderGroupIter(t, << 0 >>)
        start == [t |-> t, status |-> "ok", num_leaves |-> NumLeaves(t),
                  link_count |-> 0, node_index |-> 0,
                  linkages |-> << >>, labels |-> << >>,
                  pairs |-> << >>, assigned |-> << >>, failed |-> << >>]
    IN  MergeLevels(start, LevelsToProcess(levels), 0, bic_distance)

\* What the caller still holds of the call before this one: its argument,
\* what it raised or returned, and whether fit had built the tree by then.
Earlier(l) ==
    IF l = NoResult THEN NoResult
    ELSE [status |-> l.status, bic_distance |-> l.bic_distance,
          linkages |-> l.linkages, labels |-> l.labels,
          fit_tree |-> l.fit_tree]

\* The caller's root.build_linkage(bic_distance).  link keeps, with what the
\* call returns, the tree as the call found it and as it left it, whether fit
\* built it, the lists the call had built when it ended, and the outcome of
\* the call before.
BuildLinkage ==
    /\ UNCHANGED walk_vars
    /\ stack = << >>
    /\ \E bic_distance \in BOOLEAN :
        LET r == BuildLinkageRun(tree, bic_distance)
        IN  /\ tree' = r.t
            /\ link' = [status |-> r.status, bic_distance |-> bic_distance,
                        linkages |-> r.linkages, labels |-> r.labels,
                        pairs |-> r.pairs, assigned |-> r.assigned,
                        failed |-> r.failed, num_leaves |-> r.num_leaves,
                        t |-> r.t, fit_tree |-> (origin = "fit"),
                        before |-> tree, prev |-> Earlier(link)]
    /\ UNCHANGED <<min_split_samples, cluster_method, stack, origin,
                   fit_error, pred>>

\* ------------------------------------------------------ to_markov_matrix
Verts == 0 .. NVerts - 1

\* The graphs on Verts with edge weights 0..w.
Graphs(w) == [Verts -> [Verts -> 0 .. w]]

\* An entry of a matrix after a division: the fraction num/den.  den = 0 is
\* what numpy's division by zero leaves (nan or inf, with a warning).
Frac(num, den) == [num |-> num, den |-> den]

RECURSIVE SumUpTo(_, _)
SumUpTo(row, k) == IF k < 0 THEN 0 ELSE row[k] + SumUpTo(row, k - 1)

\* Line 7: prob_mat.sum(axis=1).
RowSums(mat) == [i \in DOMAIN mat |-> SumUpTo(mat[i], NVerts - 1)]

\* A faulty variant of PlugHoles: the zero sums left in place.
PlugHoles_none(row_sums) == row_sums

\* Line 8: row_sums[row_sums == 0] = 1.
PlugHoles(row_sums) ==
    [i \in DOMAIN row_sums |-> IF row_sums[i] = 0 THEN 1 ELSE row_sums[i]]

\* Lines 5-10.
to_markov_matrix(a) ==
    LET row_sums == PlugHoles(RowSums(a))
    IN  [i \in DOMAIN a |-> [j \in DOMAIN a[i] |-> Frac(a[i][j], row_sums[i])]]

ToMarkovMatrix ==
    /\ pc = "new"
    /\ adj /= << >>
    /\ prob_mat' = to_markov_matrix(adj)
    /\ pc' = "ready"
    /\ UNCHANGED <<tree_vars, adj, call_vars, dead_inds, stop_reasons,
                   sm_paths, visit_orders, s_pos, walk_n, curr_ind, n_steps,
                   path, error, printed, walks, draws, seed, first, rw,
                   fast, pool>>

\* -------------------------------------------------- generate_random_walks
\* The sum of a row of fractions of one denominator, as a fraction.
RowTotal(row) ==
    Frac(SumUpTo([j \in DOMAIN row |-> row[j].num], NVerts - 1), row[0].den)

\* Line 17: np.where(prob_mat.sum(axis=1) == 0)[0]; nan equals nothing.
DeadInds(pm) ==
    {i \in DOMAIN pm : RowTotal(pm[i]).den /= 0 /\ RowTotal(pm[i]).num = 0}

\* np.random.choice(n_verts, p=row) raises ValueError unless p sums to 1.
ValidP(row) ==
    /\ RowTotal(row).den /= 0
    /\ RowTotal(row).num = RowTotal(row).den
    /\ \A j \in DOMAIN row : row[j].num >= 0

\* The values np.random.choice(n_verts, p=row) can return.
Support(row) == {j \in DOMAIN row : row[j].num > 0}

\* What the generator returns for this call of np.random.choice: the value
\* the seed fixes, or any value of positive probability.
Drawn(row) ==
    IF seed /= << >> /\ Head(seed) \in Support(row) THEN {Head(seed)}
    ELSE Support(row)

\* A faulty variant of Continues: the test for a dead vertex left out.
Continues_nodead(c, k) ==
    /\ c \notin out_inds
    /\ k <= max_walk

\* A faulty variant of Continues: one transition more than the code allows.
Continues_extra(c, k) ==
    /\ c \notin out_inds
    /\ k <= max_walk + 1
    /\ c \notin dead_inds

\* Lines 27-31: the condition of the while loop.
Continues(c, k) ==
    /\ c \notin out_inds
    /\ k <= max_walk
    /\ c \notin dead_inds

\* A faulty variant of StopReason: the budget test off by one.
StopReason_late(c, k) ==
    IF c \in out_inds THEN 0
    ELSE IF c \in dead_inds THEN 1
    ELSE IF k > max_walk + 1 THEN 2
    ELSE 3

\* Lines 37-47: the index of stop_reasons a finished walk is counted under.
StopReason(c, k) ==
    IF c \in out_inds THEN 0
    ELSE IF c \in dead_inds THEN 1
    ELSE IF k > max_walk THEN 2
    ELSE 3

\* A faulty variant of Keeps: the dead walks returned unasked.
Keeps_dead(reason) == reason = 0 \/ reason = 1

\* Lines 39, 42-43: whether the path goes to sm_paths.
Keeps(reason) == reason = 0 \/ (reason = 1 /\ return_stuck)

\* A faulty variant of StopFractions: Python's division, which raises.
StopFractions_python(sr) ==
    LET total == sr[1] + sr[2] + sr[3] + sr[4]
    IN  IF total = 0 THEN [status |-> "ZeroDivisionError", vals |-> << >>]
        ELSE [status |-> "ok",
              vals |-> [i \in DOMAIN sr |-> Frac(sr[i], total)]]

\* Line 49: stop_reasons / stop_reasons.sum(), a division of numpy arrays:
\* by zero it gives nan and a warning, no exception.
StopFractions(sr) ==
    LET total == sr[1] + sr[2] + sr[3] + sr[4]
    IN  [status |-> "ok", vals |-> [i \in DOMAIN sr |-> Frac(sr[i], total)]]

\* from_inds: vertices in increasing order.
Sources ==
    {sq \in UNION {[1 .. k -> Verts] : k \in 0 .. NVerts} :
        \A i \in 1 .. (Len(sq) - 1) : sq[i] < sq[i + 1]}

\* A faulty variant of NoVisits: the lists of an earlier call kept.
NoVisits_kept(pm) ==
    IF visit_orders = << >> THEN [i \in DOMAIN pm |-> << >>]
    ELSE visit_orders

\* Line 20: visit_orders = {i: [] for i in range(n_verts)}.
NoVisits(pm) == [i \in DOMAIN pm |-> << >>]

\* A faulty variant of Visit: the position counted from 0.
Visit_from0(vo, v, p) == [vo EXCEPT ![v] = Append(@, Len(p) - 1)]

\* Lines 26, 36 (69, 79): visit_orders[v].append(len(path)), v being the
\* vertex just appended to the path p.
Visit(vo, v, p) == [vo EXCEPT ![v] = Append(@, Len(p))]

\* Lines 13-20: the call, up to the loops.
GenerateRandomWalks ==
    /\ pc = "ready"
    /\ \E f \in Sources, o \in SUBSET Verts, nw \in 1 .. MaxNWalks,
          mw \in (-1) .. MaxWalk, rs \in BOOLEAN :
        /\ from_inds' = f
        /\ out_inds' = o
        /\ n_walks' = nw
        /\ max_walk' = mw
        /\ return_stuck' = rs
    /\ dead_inds' = DeadInds(prob_mat)
    /\ stop_reasons' = << 0, 0, 0, 0 >>
    /\ sm_paths' = << >>
    /\ visit_orders' = NoVisits(prob_mat)
    /\ s_pos' = 1
    /\ walk_n' = 0
    /\ pc' = "loop"
    /\ UNCHANGED <<tree_vars, adj, prob_mat, curr_ind, n_steps, path, error,
                   printed, walks, draws, seed, first, rw, fast, pool>>

\* Lines 21-26: the next walk of the two for loops begins.
StartWalk ==
    /\ pc = "loop"
    /\ s_pos <= Len(from_inds)
    /\ LET s == from_inds[s_pos]
       IN  /\ curr_ind' = s
           /\ n_steps' = 0
           /\ path' = << s >>
           /\ visit_orders' = Visit(visit_orders, s, << s >>)
    /\ pc' = "walk"
    /\ UNCHANGED <<tree_vars, adj, prob_mat, call_vars, dead_inds,
                   stop_reasons, sm_paths, s_pos, walk_n, error, printed,
                   walks, draws, seed, first, rw, fast, pool>>

\* Lines 27-36: one pass of the while loop.
Step ==
    /\ pc = "walk"
    /\ Continues(curr_ind, n_steps)
    /\ IF ~ValidP(prob_mat[curr_ind])
       THEN /\ error' = "ValueError"
            /\ pc' = "raised"
            /\ UNCHANGED <<curr_ind, n_steps, path, visit_orders, draws,
                           seed>>
       ELSE /\ \E next_ind \in Drawn(prob_mat[curr_ind]) :
                /\ curr_ind' = next_ind
                /\ path' = Append(path, next_ind)
                /\ visit_orders' = Visit(visit_orders, next_ind,
                                        Append(path, next_ind))
                /\ draws' = Append(draws, next_ind)
            /\ n_steps' = n_steps + 1
            /\ seed' = IF seed = << >> THEN seed ELSE Tail(seed)
            /\ UNCHANGED <<pc, error>>
    /\ UNCHANGED <<tree_vars, adj, prob_mat, call_vars, dead_inds,
                   stop_reasons, sm_paths, s_pos, walk_n, printed, walks,
                   first, rw, fast, pool>>

\* Lines 37-47, and the step of the for loops: the walk is counted.
EndWalk ==
    /\ pc = "walk"
    /\ ~Continues(curr_ind, n_steps)
    /\ LET reason == StopReason(curr_ind, n_steps)
       IN  /\ stop_reasons' = [stop_reasons EXCEPT ![reason + 1] = @ + 1]
           /\ sm_paths' = IF Keeps(reason) THEN Append(sm_paths, path)
                          ELSE sm_paths
           /\ walks' = Append(walks, [path |-> path, n_steps |-> n_steps,
                                      reason |-> reason])
    /\ IF walk_n + 1 < n_walks
       THEN walk_n' = walk_n + 1 /\ s_pos' = s_pos
       ELSE walk_n' = 0 /\ s_pos' = s_pos + 1
    /\ pc' = "loop"
    /\ UNCHANGED <<tree_vars, adj, prob_mat, call_vars, dead_inds,
                   visit_orders, curr_ind, n_steps, path, error, printed,
                   draws, seed, first, rw, fast, pool>>

\* Lines 49-51: the loops are over; the fractions are printed and the call
\* returns sm_paths and visit_orders.
ReturnWalks ==
    /\ pc = "loop"
    /\ s_pos > Len(from_inds)
    /\ LET fractions == StopFractions(stop_reasons)
       IN  IF fractions.status = "ok"
           THEN printed' = fractions.vals /\ pc' = "done" /\ error' = error
           ELSE printed' = printed /\ pc' = "raised"
                /\ error' = fractions.status
    /\ UNCHANGED <<tree_vars, adj, prob_mat, call_vars, dead_inds,
                   stop_reasons, sm_paths, visit_orders, s_pos, walk_n,
                   curr_ind, n_steps, path, walks, draws, seed, first, rw,
                   fast, pool>>

\* The caller sets the seed of the first call again and repeats the call
\* with the same arguments (lines 13-20 once more).
CallAgain ==
    /\ pc = "done"
    /\ first = << >>
    /\ first' = [sm_paths |-> sm_paths, visit_orders |-> visit_orders,
                 stop_reasons |-> stop_reasons, walks |-> walks]
    /\ seed' = draws
    /\ draws' = << >>
    /\ walks' = << >>
    /\ dead_inds' = DeadInds(prob_mat)
    /\ stop_reasons' = << 0, 0, 0, 0 >>
    /\ sm_paths' = << >>
    /\ visit_orders' = NoVisits(prob_mat)
    /\ s_pos' = 1
    /\ walk_n' = 0
    /\ pc' = "loop"
    /\ UNCHANGED <<tree_vars, adj, prob_mat, call_vars, curr_ind, n_steps,
                   path, error, printed, rw, fast, pool>>

\* --------------------------------------------- generate_random_walks_fast
\* _simulate_walk is decorated with numba's njit (line 64), which compiles it
\* in nopython mode at its first call.  The call of line 100 hands it
\* visit_orders, a Python dict of lists (line 97), and line 75 gives
\* np.random.choice the argument p: numba types neither, and the call raises
\* a TypingError.  Only a process that runs with numba's compilation switched
\* off (NUMBA_DISABLE_JIT) executes the body as Python.  Both are outcomes of
\* the same source.
Builds == {"jit", "python"}

\* Lines 93-97: the caller sets the seed of a call of generate_random_walks
\* that returned again and calls generate_random_walks_fast with the same
\* arguments.
GenerateRandomWalksFast ==
    /\ pc = "done"
    /\ first = << >>
    /\ ~return_stuck
    /\ fast' \in Builds
    /\ first' = [sm_paths |-> sm_paths, visit_orders |-> visit_orders,
                 stop_reasons |-> stop_reasons, walks |-> walks]
    /\ seed' = draws
    /\ draws' = << >>
    /\ walks' = << >>
    /\ dead_inds' = DeadInds(prob_mat)
    /\ sm_paths' = << >>
    /\ visit_orders' = NoVisits(prob_mat)
    /\ s_pos' = 1
    /\ walk_n' = 0
    /\ pc' = "fast_loop"
    /\ UNCHANGED <<tree_vars, adj, prob_mat, call_vars, stop_reasons,
                   curr_ind, n_steps, path, error, printed, rw, pool>>

\* Lines 98-102 and 64-69: _simulate_walk is called for the next pair.
SimulateWalkCall ==
    /\ pc = "fast_loop"
    /\ s_pos <= Len(from_inds)
    /\ IF fast = "jit"
       THEN /\ error' = "TypingError"
            /\ pc' = "fast_raised"
            /\ UNCHANGED <<curr_ind, n_steps, path, visit_orders>>
       ELSE /\ LET s == from_inds[s_pos]
               IN  /\ curr_ind' = s
                   /\ n_steps' = 0
                   /\ path' = << s >>
                   /\ visit_orders' = Visit(visit_orders, s, << s >>)
            /\ pc' = "fast_walk"
            /\ error' = error
    /\ UNCHANGED <<tree_vars, adj, prob_mat, call_vars, dead_inds,
                   stop_reasons, sm_paths, s_pos, walk_n, printed, walks,
                   draws, seed, first, rw, fast, pool>>

\* Lines 70-79: one pass of the while loop of _simulate_walk.
SimulateWalkStep ==
    /\ pc = "fast_walk"
    /\ Continues(curr_ind, n_steps)
    /\ IF ~ValidP(prob_mat[curr_ind])
       THEN /\ error' = "ValueError"
            /\ pc' = "fast_raised"
            /\ UNCHANGED <<curr_ind, n_steps, path, visit_orders, draws,
                           seed>>
       ELSE /\ \E next_ind \in Drawn(prob_mat[curr_ind]) :
                /\ curr_ind' = next_ind
                /\ path' = Append(path, next_ind)
                /\ visit_orders' = Visit(visit_orders, next_ind,
                                        Append(path, next_ind))
                /\ draws' = Append(draws, next_ind)
            /\ n_steps' = n_steps + 1
            /\ seed' = IF seed = << >> THEN seed ELSE Tail(seed)
            /\ UNCHANGED <<pc, error>>
    /\ UNCHANGED <<tree_vars, adj, prob_mat, call_vars, dead_inds,
                   stop_reasons, sm_paths, s_pos, walk_n, printed, walks,
                   first, rw, fast, pool>>

\* A faulty variant of SimulateWalkOut: the path returned wherever it ends.
SimulateWalkOut_any(c, p) == << p >>

\* Lines 80-83: what _simulate_walk returns, as the list of what line 104
\* appends: the path, or nothing for None.
SimulateWalkOut(c, p) == IF c \in out_inds THEN << p >> ELSE << >>

\* Lines 80-83 and 103-104, and the step of the for loops.
SimulateWalkReturn ==
    /\ pc = "fast_walk"
    /\ ~Continues(curr_ind, n_steps)
    /\ sm_paths' = sm_paths \o SimulateWalkOut(curr_ind, path)
    /\ walks' = Append(walks, [path |-> path, n_steps |-> n_steps,
                               reason |-> StopReason(curr_ind, n_steps)])
    /\ IF walk_n + 1 < n_walks
       THEN walk_n' = walk_n + 1 /\ s_pos' = s_pos
       ELSE walk_n' = 0 /\ s_pos' = s_pos + 1
    /\ pc' = "fast_loop"
    /\ UNCHANGED <<tree_vars, adj, prob_mat, call_vars, dead_inds,
                   stop_reasons, visit_orders, curr_ind, n_steps, path,
                   error, printed, draws, seed, first, rw, fast, pool>>

\* Line 105: the loops are over; sm_paths and visit_orders are returned.
ReturnFast ==
    /\ pc = "fast_loop"
    /\ s_pos > Len(from_inds)
    /\ pc' = "fast_done"
    /\ UNCHANGED <<tree_vars, adj, prob_mat, call_vars, dead_inds,
                   stop_reasons, sm_paths, visit_orders, s_pos, walk_n,
                   curr_ind, n_steps, path, error, printed, walks, draws,
                   seed, first, rw, fast, pool>>

\* ------------------------------------------------- RandomWalk (traverse)
\* The class the notebooks use as
\*   rw = RandomWalk(transition_probs, stop_nodes=..., max_hops=...,
\*                   allow_loops=...); rw.start(s); rw.traversal_
\* is not part of the sources at hand; it is modelled from its specification.
call_state == <<call_vars, dead_inds, stop_reasons, sm_paths, visit_orders,
                s_pos, walk_n, curr_ind, n_steps, path, pc, error, printed,
                walks, draws, seed, first>>

\* The constructor.
RandomWalkInit ==
    /\ pc = "ready"
    /\ rw = NoWalker
    /\ \E stop \in SUBSET Verts, hops \in 0 .. MaxWalk, loops \in BOOLEAN :
        rw' = [status |-> "idle", stop_nodes |-> stop, max_hops |-> hops,
               allow_loops |-> loops, traversal_ |-> << >>,
               outcome |-> "none"]
    /\ UNCHANGED <<tree_vars, adj, prob_mat, call_state, fast, pool>>

\* start(s): a new trajectory, of the source alone.
RandomWalkStart ==
    /\ rw.status \in {"idle", "stopped"}
    /\ \E s \in Verts :
        rw' = [rw EXCEPT !.status = "walking", !.traversal_ = << s >>,
                         !.outcome = "none"]
    /\ UNCHANGED <<tree_vars, adj, prob_mat, call_state, fast, pool>>

\* The vertices visited so far.
Visited(t) == {t[i] : i \in DOMAIN t}

\* A faulty variant of Candidates: visited vertices stay eligible.
Candidates_all(row, t, loops) == Support(row)

\* The candidate distribution: with allow_loops=False the vertices already
\* visited are excluded (and the rest renormalised) before sampling.
Candidates(row, t, loops) ==
    IF loops THEN Support(row) ELSE Support(row) \ Visited(t)

\* The termination policy: "success" at a stop vertex, "dead-end" where no
\* probability mass is left to sample from, "truncated" once the step count
\* exceeds max_hops; "none" while the walk goes on.
Termination(w) ==
    LET t == w.traversal_
        cur == t[Len(t)]
    IN  IF cur \in w.stop_nodes THEN "success"
        ELSE IF Candidates(prob_mat[cur], t, w.allow_loops) = {}
             THEN "dead-end"
        ELSE IF Len(t) - 1 > w.max_hops THEN "truncated"
        ELSE "none"

\* One step: the next vertex is sampled from the candidates.
RandomWalkStep ==
    /\ rw.status = "walking"
    /\ Termination(rw) = "none"
    /\ \E next_ind \in Candidates(prob_mat[rw.traversal_[Len(rw.traversal_)]],
                                  rw.traversal_, rw.allow_loops) :
        rw' = [rw EXCEPT !.traversal_ = Append(@, next_ind)]
    /\ UNCHANGED <<tree_vars, adj, prob_mat, call_state, fast, pool>>

\* The trajectory ends with one of the three outcomes.
RandomWalkStop ==
    /\ rw.status = "walking"
    /\ Termination(rw) /= "none"
    /\ rw' = [rw EXCEPT !.status = "stopped", !.outcome = Termination(rw)]
    /\ UNCHANGED <<tree_vars, adj, prob_mat, call_state, fast, pool>>

\* ---------------------------------------------------- parallel multistart
\* The dispatcher that hands the (source, trial) pairs to several workers is
\* not part of the sources at hand; it is modelled from its specification:
\* every worker has a private accumulator and the partial results are summed
\* at the end.  What a worker does with one pair is the body of
\* _simulate_walk (lines 65-83) as Python runs it, followed statement by
\* statement.

\* The last vertex of a path: the walk's curr_ind.
Last(p) == p[Len(p)]

\* The (source, trial) pairs in the order of the two for loops (lines 98-99):
\* the source of each.
Tasks(f, nw) == [i \in 1 .. (Len(f) * nw) |-> f[((i - 1) \div nw) + 1]]

\* The hop indices a visit can have.
Hops == 1 .. (MaxWalk + 2)

\* The histogram of visit lists: visits per vertex and hop index.
Hist(vo) ==
    [v \in Verts |-> [h \in Hops |->
        Cardinality({i \in DOMAIN vo[v] : vo[v][i] = h})]]

\* A worker with nothing to do and an empty accumulator.
IdleWorker ==
    [task |-> 0, path |-> << >>, n_steps |-> 0,
     visit_orders |-> [v \in Verts |-> << >>]]

\* multistart: the pairs are queued for n_workers workers.
Multistart ==
    /\ pc = "ready"
    /\ pool = NoPool
    /\ \E f \in Sources, o \in SUBSET Verts, nw \in 1 .. MaxNWalks,
          mw \in 0 .. MaxWalk, k \in 1 .. NWorkers :
        /\ from_inds' = f
        /\ out_inds' = o
        /\ n_walks' = nw
        /\ max_walk' = mw
        /\ pool' = [status |-> "running", tasks |-> Tasks(f, nw), next |-> 0,
                    workers |-> [w \in 1 .. k |-> IdleWorker],
                    paths |-> [i \in 1 .. (Len(f) * nw) |-> << >>],
                    total |-> << >>]
    /\ dead_inds' = DeadInds(prob_mat)
    /\ pc' = "pool"
    /\ UNCHANGED <<tree_vars, adj, prob_mat, return_stuck, stop_reasons,
                   sm_paths, visit_orders, s_pos, walk_n, curr_ind, n_steps,
                   path, error, printed, walks, draws, seed, first, rw, fast>>

\* Everything a worker leaves alone.
pool_frame == <<tree_vars, adj, prob_mat, call_state, rw, fast>>

\* Lines 65-68: a free worker takes the next pair and starts its walk.
WorkerTake ==
    /\ pool.status = "running"
    /\ pool.next < Len(pool.tasks)
    /\ \E w \in DOMAIN pool.workers :
        /\ pool.workers[w].task = 0
        /\ LET s == pool.tasks[pool.next + 1]
           IN  pool' = [pool EXCEPT
                    !.next = @ + 1,
                    !.workers[w].task = pool.next + 1,
                    !.workers[w].path = << s >>,
                    !.workers[w].n_steps = 0,
                    !.workers[w].visit_orders[s] = Append(@, 1)]
    /\ UNCHANGED pool_frame

\* Lines 69-79: one pass of the worker's while loop.
WorkerStep ==
    /\ pool.status = "running"
    /\ \E w \in DOMAIN pool.workers :
        LET me == pool.workers[w]
        IN  /\ me.task /= 0
            /\ Continues(Last(me.path), me.n_steps)
            /\ \E next_ind \in Support(prob_mat[Last(me.path)]) :
                pool' = [pool EXCEPT
                    !.workers[w].path = Append(@, next_ind),
                    !.workers[w].n_steps = @ + 1,
                    !.workers[w].visit_orders[next_ind] =
                        Append(@, Len(me.path) + 1)]
    /\ UNCHANGED pool_frame

\* Lines 80-83: the walk is over, the worker is free again.
WorkerDone ==
    /\ pool.status = "running"
    /\ \E w \in DOMAIN pool.workers :
        LET me == pool.workers[w]
        IN  /\ me.task /= 0
            /\ ~Continues(Last(me.path), me.n_steps)
            /\ pool' = [pool EXCEPT
                    !.paths[me.task] = me.path,
                    !.workers[w].task = 0]
    /\ UNCHANGED pool_frame

RECURSIVE SumHist(_, _)
\* The sum of the histograms of workers 1..k.
SumHist(workers, k) ==
    IF k = 0 THEN [v \in Verts |-> [h \in Hops |-> 0]]
    ELSE LET rest == SumHist(workers, k - 1)
             mine == Hist(workers[k].visit_orders)
         IN  [v \in Verts |-> [h \in Hops |-> rest[v][h] + mine[v][h]]]

\* A faulty variant of Reduced: only the first worker's partial result.
Reduced_first(workers) == Hist(workers[1].visit_orders)

\* The final reduction: the partial results are summed.
Reduced(workers) == SumHist(workers, Len(workers))

\* Every pair is done: the partial results are reduced.
Reduce ==
    /\ pool.status = "running"
    /\ pool.next = Len(pool.tasks)
    /\ \A w \in DOMAIN pool.workers : pool.workers[w].task = 0
    /\ pool' = [pool EXCEPT !.status = "reduced",
                            !.total = Reduced(pool.workers)]
    /\ UNCHANGED pool_frame

RECURSIVE Walked(_, _, _)
\* Lines 67, 79: visit_orders after a walk along path p, from position i on.
Walked(vo, p, i) ==
    IF i > Len(p) THEN vo
    ELSE Walked([vo EXCEPT ![p[i]] = Append(@, i)], p, i + 1)

RECURSIVE Sequential(_, _, _)
\* Lines 96-105: visit_orders after the walks of pairs i, i+1, ... one after
\* the other, the walk of each pair being the path given.
Sequential(vo, paths, i) ==
    IF i > Len(paths) THEN vo
    ELSE Sequential(Walked(vo, paths[i], 1), paths, i + 1)

\* ------------------------------------------------------- specifications
\* predict reads only name, children and model_, which build_linkage leaves
\* alone, and build_linkage reads nothing predict writes: the two are explored
\* from every tree in a specification each.
Next ==
    \/ FitBegin
    \/ FitLeaf
    \/ FitRaise
    \/ FitModel
    \/ FitChild
    \/ FitFinish
    \/ Construct
    \/ BuildLinkage

Spec == Init /\ [][Next]_vars

NextPredict ==
    \/ FitBegin
    \/ FitLeaf
    \/ FitRaise
    \/ FitModel
    \/ FitChild
    \/ FitFinish
    \/ Construct
    \/ Predict

SpecPredict == Init /\ [][NextPredict]_vars

\* fit, and fit a second time on the same root.
NextRefit ==
    \/ FitBegin
    \/ FitLeaf
    \/ FitRaise
    \/ FitModel
    \/ FitChild
    \/ FitFinish
    \/ FitAgain

SpecRefit == Init /\ [][NextRefit]_vars

\* The tree is left as constructed while the walks run.
NoTree ==
    /\ tree = [k \in {0} |-> NewNode(<< >>, None)]
    /\ min_split_samples = 1
    /\ cluster_method = "graspy-gmm"
    /\ stack = << >>
    /\ origin = "new"
    /\ fit_error = "none"
    /\ pred = NoResult
    /\ link = NoResult

\* to_markov_matrix on every weighted graph.
InitMarkov ==
    /\ NoTree
    /\ adj \in Graphs(MaxWeight)
    /\ NoCall

NextMarkov == ToMarkovMatrix

SpecMarkov == InitMarkov /\ [][NextMarkov]_vars

\* generate_random_walks on the Markov matrix of every graph of unit weights.
InitWalk ==
    /\ NoTree
    /\ adj \in Graphs(1)
    /\ NoCall

NextWalk ==
    \/ ToMarkovMatrix
    \/ GenerateRandomWalks
    \/ StartWalk
    \/ Step
    \/ EndWalk
    \/ ReturnWalks

SpecWalk == InitWalk /\ [][NextWalk]_vars

\* The same call made twice with one seed.
NextReplay ==
    \/ ToMarkovMatrix
    \/ GenerateRandomWalks
    \/ StartWalk
    \/ Step
    \/ EndWalk
    \/ ReturnWalks
    \/ CallAgain

SpecReplay == InitWalk /\ [][NextReplay]_vars

\* A call of generate_random_walks, then generate_random_walks_fast with the
\* same arguments and the same seed.
NextFast ==
    \/ ToMarkovMatrix
    \/ GenerateRandomWalks
    \/ StartWalk
    \/ Step
    \/ EndWalk
    \/ ReturnWalks
    \/ GenerateRandomWalksFast
    \/ SimulateWalkCall
    \/ SimulateWalkStep
    \/ SimulateWalkReturn
    \/ ReturnFast

SpecFast == InitWalk /\ [][NextFast]_vars

\* RandomWalk objects on the Markov matrix of every graph of unit weights.
NextTraverse ==
    \/ ToMarkovMatrix
    \/ RandomWalkInit
    \/ RandomWalkStart
    \/ RandomWalkStep
    \/ RandomWalkStop

SpecTraverse == InitWalk /\ [][NextTraverse]_vars

\* A parallel multistart on the Markov matrix of every graph of unit weights.
NextWorkers ==
    \/ ToMarkovMatrix
    \/ Multistart
    \/ WorkerTake
    \/ WorkerStep
    \/ WorkerDone
    \/ Reduce

SpecWorkers == InitWalk /\ [][NextWorkers]_vars

\* ================================================================ claims
\* fit has returned (or raised) and nothing was attached by hand.
FitDone == origin = "fit" /\ stack = << >>

\* C1: after fit, every node that has children has exactly two; their sample
\* sets are disjoint, their union is the parent's sample set, and their
\* n_samples_ add up to the parent's.
C1_ChildrenPartitionParent ==
    FitDone =>
        \A n \in Nodes :
            tree[n].children /= << >> =>
                /\ Len(tree[n].children) = 2
                /\ LET c0 == tree[tree[n].children[1]]
                       c1 == tree[tree[n].children[2]]
                   IN  /\ c0.X \cap c1.X = {}
                       /\ c0.X \cup c1.X = tree[n].X
                       /\ c0.n_samples_ + c1.n_samples_ = tree[n].n_samples_

\* A split whose two children both hold samples.
C1_Witness ==
    /\ FitDone
    /\ \E n \in Nodes :
        /\ Len(tree[n].children) = 2
        /\ tree[tree[n].children[1]].X /= {}
        /\ tree[tree[n].children[2]].X /= {}

\* C2: in fit, a node with at most min_split_samples samples is a leaf and
\* no model is constructed, fitted or stored for it; a model is fitted only on
\* strictly more than min_split_samples samples.
C2_NoModelAtOrBelowMinSplit ==
    origin = "fit" =>
        \A n \in Nodes :
            tree[n].fitted =>
                /\ tree[n].n_samples_ <= min_split_samples =>
                        /\ tree[n].children = << >>
                        /\ tree[n].model_ = NoModel
                        /\ tree[n].n_components_ = 0
                /\ tree[n].model_ /= NoModel =>
                        tree[n].n_samples_ > min_split_samples

\* A fitted tree with a model at the root and a leaf of exactly
\* min_split_samples samples.
C2_Witness ==
    /\ FitDone
    /\ tree[0].model_ /= NoModel
    /\ \E n \in Nodes :
        /\ tree[n].fitted
        /\ tree[n].n_samples_ = min_split_samples
        /\ tree[n].children = << >>

\* C3: after fit, every node has 0 or 2 children: none where the model
\* selected one component (or none was fitted), two where it selected two,
\* child 0 holding the rows labelled 0 and child 1 the rest, named by the
\* parent's name extended by the child's index.
C3_ZeroOrTwoChildren ==
    FitDone =>
        \A n \in Nodes :
            /\ Len(tree[n].children) \in {0, 2}
            /\ tree[n].n_components_ = 1 => tree[n].children = << >>
            /\ tree[n].children = << >> <=> tree[n].n_components_ /= 2
            /\ tree[n].n_components_ = 2 =>
                /\ Len(tree[n].children) = 2
                /\ \A i \in {0, 1} :
                    LET c == tree[tree[n].children[i + 1]]
                    IN  /\ c.parent = n
                        /\ c.name = tree[n].name \o << i >>
                        /\ c.X = {x \in tree[n].X :
                                    (tree[n].model_[x] = 0) <=> (i = 0)}

\* A fitted tree with a node that split and a node whose model selected one
\* component.
C3_Witness ==
    /\ FitDone
    /\ \E n \in Nodes : tree[n].n_components_ = 2
    /\ \E n \in Nodes : tree[n].n_components_ = 1

\* predict was called on a tree that fit built.
PredictedFitTree == pred.status /= "not called" /\ pred.fit_tree

\* The name of the leaf a row reaches from node n: at a node with children,
\* child 0 when the node's model labels the row 0, child 1 otherwise.
RECURSIVE Route(_, _, _)
Route(t, n, x) ==
    IF t[n].children = << >> THEN t[n].name
    ELSE IF t[n].model_[x] = 0 THEN Route(t, t[n].children[1], x)
    ELSE Route(t, t[n].children[2], x)

\* C4: predict(X) returns one label per row of X, in order: label i is the
\* name of the leaf that row i reaches.  (An exception of the cluster model
\* itself, which is not code of the repository, is put aside.)
C4_PredictLabelsEveryRow ==
    (PredictedFitTree /\ pred.status /= "ModelError") =>
        /\ pred.status = "ok"
        /\ Len(pred.vals) = Len(pred.X)
        /\ \A i \in 1 .. Len(pred.X) :
                pred.vals[i] = Route(pred.t, 0, pred.X[i])

\* C5: predict never asks a node's model to predict zero rows, and returns
\* without error when a node is reached by no row.
C5_NoModelCallOnEmptySubset ==
    PredictedFitTree =>
        /\ pred.empty = {}
        /\ pred.status = "ok"

\* C6: merging the labels of two subtrees never raises and never truncates or
\* changes a label, also when the labels differ in length or one subtree
\* received no row.
C6_MergeKeepsFullLabels ==
    PredictedFitTree =>
        /\ pred.status /= "ValueError"
        /\ pred.status = "ok" =>
                \A i \in 1 .. Len(pred.vals) :
                    /\ pred.vals[i] = Route(pred.t, 0, pred.X[i])
                    /\ \E n \in DOMAIN pred.t :
                        /\ pred.t[n].children = << >>
                        /\ pred.t[n].name = pred.vals[i]

\* build_linkage was called, on a tree that fit built.
Linked == link.status /= "not called"
LinkedFitTree == Linked /\ link.fit_tree

LeafNodes(t) == {n \in DOMAIN t : t[n].children = << >>}
InternalNodes(t) == {n \in DOMAIN t : t[n].children /= << >>}

\* The node a row's pair is merged into.
MergedInto(t, pair) == t[pair[1]].parent

\* C7: for a fitted tree with L leaves and K internal nodes build_linkage
\* returns exactly K rows, and each id in a row is the id of a leaf, assigned
\* by the time the row is emitted, or the id of an internal node whose own
\* row comes earlier.
C7_RowsReferToEarlierIds ==
    LinkedFitTree =>
        /\ ~link.bic_distance => link.status = "ok"
        /\ link.status = "ok" =>
            LET t == link.t
                L == Cardinality(LeafNodes(t))
                K == Cardinality(InternalNodes(t))
            IN  /\ Len(link.linkages) = K
                /\ \A k \in 1 .. Len(link.linkages) : \A c \in {1, 2} :
                    LET id == link.linkages[k][c]
                    IN  \/ /\ id \in 0 .. (link.assigned[k] - 1)
                           /\ \E n \in LeafNodes(t) : t[n].ind = id
                        \/ \E j \in 1 .. (k - 1) :
                            /\ id = t[MergedInto(t, link.pairs[j])].ind
                            /\ id = L + j - 1

\* A linkage of a fitted tree in which a row refers to an earlier row.
C7_Witness ==
    /\ LinkedFitTree
    /\ link.status = "ok"
    /\ Len(link.linkages) >= 2
    /\ \E k \in 1 .. Len(link.linkages) : \E c \in {1, 2} :
            link.linkages[k][c] >= link.num_leaves

\* C8: build_linkage gives the L leaves the ids 0..L-1 and the K internal
\* nodes the ids L..L+K-1 in the order of their rows, and returns L leaf
\* labels, label i being the name of the leaf with id i; for every fitted
\* tree, a root that is a leaf included.
C8_IdsAndLabelsOfEveryLeaf ==
    (LinkedFitTree /\ link.status = "ok") =>
        LET t == link.t
            L == Cardinality(LeafNodes(t))
            K == Cardinality(InternalNodes(t))
        IN  /\ {t[n].ind : n \in LeafNodes(t)} = 0 .. (L - 1)
            /\ {t[n].ind : n \in InternalNodes(t)} = L .. (L + K - 1)
            /\ \A k \in 1 .. Len(link.pairs) :
                    t[MergedInto(t, link.pairs[k])].ind = L + k - 1
            /\ Len(link.labels) = L
            /\ \A n \in LeafNodes(t) :
                    /\ t[n].ind + 1 \in DOMAIN link.labels
                    /\ link.labels[t[n].ind + 1] = t[n].name

\* Two nodes with the same parent.
Siblings(t, a, b) == t[a].parent /= None /\ t[a].parent = t[b].parent

\* The pairs build_linkage takes up, in its order: the neighbours (1st, 2nd),
\* (3rd, 4th), ... of every level below the root's, bottom-up.
RECURSIVE PairsOfLevels(_)
PairsOfLevels(groups) ==
    IF groups = << >> THEN << >>
    ELSE [i \in 1 .. (Len(Head(groups)) \div 2) |->
              << Head(groups)[2 * i - 1], Head(groups)[2 * i] >>]
         \o PairsOfLevels(Tail(groups))

PairsInOrder(t) ==
    LET levels == LevelOrderGroupIter(t, << 0 >>)
    IN  PairsOfLevels(SubSeq(Reversed(levels), 1, Len(levels) - 1))

\* C9: every row merges two children of one parent; the check comes before
\* the row: the first pair that is not two siblings ends the call with no row
\* for it, and on a tree that fit built this never happens.
C9_OnlySiblingsAreMerged ==
    Linked =>
        LET t == link.t
            P == PairsInOrder(t)
        IN  /\ \A k \in 1 .. Len(link.pairs) :
                    Siblings(t, link.pairs[k][1], link.pairs[k][2])
            /\ link.pairs = SubSeq(P, 1, Len(link.pairs))
            /\ link.status = "ok" => Len(link.pairs) = Len(P)
            /\ link.status /= "ok" =>
                    /\ Len(link.pairs) < Len(P)
                    /\ link.failed = P[Len(link.pairs) + 1]
                    /\ (link.status = "AssertionError")
                          <=> ~Siblings(t, link.failed[1], link.failed[2])
            /\ link.fit_tree => link.status /= "AssertionError"

\* A call that emitted a row and then failed on a pair of non-siblings.
C9_Witness ==
    /\ Linked
    /\ link.status = "AssertionError"
    /\ Len(link.pairs) >= 1

\* The depth of a node: the number of its ancestors.
RECURSIVE Depth(_, _)
Depth(t, n) == IF t[n].parent = None THEN 0 ELSE 1 + Depth(t, t[n].parent)

Height(t) == Len(LevelOrderGroupIter(t, << 0 >>)) - 1

\* C10: with bic_distance=False the distance of a row is the number of levels
\* of the merged node above the deepest leaves, so merges at the same depth
\* get the same distance; a row's distance is greater than the distance of an
\* earlier row whose merged node it refers to, and distances never decrease
\* along the table.
C10_DistanceIsLevelsFromLeaves ==
    (Linked /\ link.status = "ok" /\ ~link.bic_distance) =>
        LET t == link.t
            dist(k) == link.linkages[k][3]
            rows == 1 .. Len(link.linkages)
        IN  /\ \A k \in rows :
                    dist(k) = Height(t) - Depth(t, link.pairs[k][1]) + 1
            /\ \A j, k \in rows :
                    Depth(t, link.pairs[j][1]) = Depth(t, link.pairs[k][1])
                        => dist(j) = dist(k)
            /\ \A j, k \in rows :
                    (j < k /\ \E c \in {1, 2} :
                        link.linkages[k][c] =
                            t[MergedInto(t, link.pairs[j])].ind)
                        => dist(j) < dist(k)
            /\ \A j, k \in rows : j < k => dist(j) <= dist(k)

\* A linkage of a binary tree with leaves at two depths: a merge of two
\* leaves that is not at the bottom level.
C10_Witness ==
    /\ Linked
    /\ link.status = "ok"
    /\ ~link.bic_distance
    /\ \A n \in DOMAIN link.t : Len(link.t[n].children) \in {0, 2}
    /\ \E k \in 1 .. Len(link.linkages) :
        /\ link.linkages[k][3] >= 2
        /\ link.linkages[k][1] < link.num_leaves
        /\ link.linkages[k][2] < link.num_leaves

\* The member count build_linkage holds for node n when row k is emitted: 1
\* for a node without children, else the count of the latest earlier row
\* that merged into n (0 if there is none).
RECURSIVE MemberCount(_, _, _)
MemberCount(lk, n, k) ==
    IF lk.t[n].children = << >> THEN 1
    ELSE IF k <= 1 THEN 0
    ELSE IF MergedInto(lk.t, lk.pairs[k - 1]) = n THEN lk.linkages[k - 1][4]
    ELSE MemberCount(lk, n, k - 1)

\* Every node has no children or two.
IsBinary(t) == \A n \in DOMAIN t : Len(t[n].children) \in {0, 2}

\* C11: in every linkage row the member count is the sum of the member
\* counts of the two merged nodes, a leaf counting 1 and an internal node
\* the member count of its own row; hence in the table of a tree of L leaves
\* the last row, the root's merge, has member count L.
C11_MemberCountIsSumOfChildren ==
    Linked =>
        /\ \A k \in 1 .. Len(link.linkages) :
                /\ link.linkages[k][4] =
                        MemberCount(link, link.pairs[k][1], k)
                        + MemberCount(link, link.pairs[k][2], k)
                /\ \A c \in {1, 2} : MemberCount(link, link.pairs[k][c], k) >= 1
        /\ (link.status = "ok" /\ IsBinary(link.t) /\ link.linkages /= << >>)
                =>  /\ MergedInto(link.t, link.pairs[Len(link.pairs)]) = 0
                    /\ link.linkages[Len(link.linkages)][4] =
                            Cardinality(LeafNodes(link.t))

\* The table of a fitted tree of three leaves: the root's row adds a leaf to
\* the count of an earlier row.
C11_Witness ==
    /\ LinkedFitTree
    /\ link.status = "ok"
    /\ Len(link.linkages) = 2
    /\ link.linkages[1][4] = 2
    /\ link.linkages[2][4] = 3

\* build_linkage() was called on a tree that fit built by splitting the root
\* once, into two leaves that were not split further.
LinkedOneSplit ==
    /\ LinkedFitTree
    /\ ~link.bic_distance
    /\ DOMAIN link.t = {0, 1, 2}
    /\ link.t[0].children = << 1, 2 >>
    /\ link.t[0].n_samples_ = link.t[1].n_samples_ + link.t[2].n_samples_

\* C12 as stated, the two 50-sample leaves scaled to the leaves of the
\* model: the tree has depth 1 and build_linkage returns exactly one row, at
\* distance 1, whose member count is the number of samples under the root
\* (100 for two leaves of 50).
C12_OneRowCountsSamples ==
    LinkedOneSplit =>
        /\ Height(link.t) = 1
        /\ link.status = "ok"
        /\ Len(link.linkages) = 1
        /\ link.linkages[1][3] = 1
        /\ link.linkages[1][4] = link.t[0].n_samples_

\* C12 amended: the tree has depth 1 and build_linkage returns exactly one
\* row, at distance 1, whose member count is 2: each of the two leaves counts
\* as 1, however many samples it holds.
C12_OneRowCountsLeaves ==
    LinkedOneSplit =>
        /\ Height(link.t) = 1
        /\ link.status = "ok"
        /\ Len(link.linkages) = 1
        /\ link.linkages[1][3] = 1
        /\ link.linkages[1][4] = 2

\* A one-split tree of more than two samples, one leaf of which held more
\* samples than min_split_samples and was fitted to a single component.
C12_Witness ==
    /\ LinkedOneSplit
    /\ link.t[0].n_samples_ > 2
    /\ \E n \in {1, 2} :
            /\ link.t[n].n_samples_ > min_split_samples
            /\ link.t[n].n_components_ = 1

\* ------------------------------------------------ claims on the random walks
\* generate_random_walks has been called.
Called == pc \in {"loop", "walk", "done", "raised"}

\* The walks counted so far under index r of stop_reasons.
WalksCounted(r) == Cardinality({i \in DOMAIN walks : walks[i].reason = r})

\* C13: every simulated walk ends in exactly one of three counted outcomes,
\* reached a stop vertex, stopped at a dead vertex or exceeded the budget, and
\* never in an error; when generate_random_walks returns the three counters
\* add up to n_walks * |from_inds| and nothing is counted anywhere else.
C13_ThreeCountedOutcomes ==
    /\ pc /= "raised"
    /\ error = "none"
    /\ Called =>
        /\ \A i \in DOMAIN walks :
            LET w == walks[i]
            IN  /\ w.reason \in {0, 1, 2}
                /\ w.reason = 0 <=> Last(w.path) \in out_inds
                /\ w.reason = 1 =>
                        SumUpTo(adj[Last(w.path)], NVerts - 1) = 0
                /\ w.reason = 2 => w.n_steps > max_walk
        /\ \A r \in 0 .. 3 : stop_reasons[r + 1] = WalksCounted(r)
        /\ stop_reasons[4] = 0
        /\ stop_reasons[1] + stop_reasons[2] + stop_reasons[3] = Len(walks)
        /\ pc = "done" =>
                stop_reasons[1] + stop_reasons[2] + stop_reasons[3]
                    = n_walks * Len(from_inds)

\* A call of four walks returned, some of them over the budget and some
\* stopped earlier.
C13_Witness ==
    /\ pc = "done"
    /\ n_walks * Len(from_inds) = 4
    /\ stop_reasons[3] >= 1
    /\ stop_reasons[1] + stop_reasons[2] >= 1

\* Vertex b has no outgoing weight and is not a stop vertex.
DeadStart(b) == SumUpTo(adj[b], NVerts - 1) = 0 /\ b \notin out_inds

\* C14: a walk started at a dead vertex B that is not a stop vertex samples no
\* transition: its path is exactly [B] and it is counted as a dead end, not
\* as a success or as truncated.
C14_DeadStartStaysPut ==
    Called =>
        /\ (path /= << >> /\ DeadStart(path[1])) =>
                /\ path = << path[1] >>
                /\ n_steps = 0
                /\ pc /= "raised"
        /\ \A i \in DOMAIN walks :
            LET w == walks[i]
            IN  DeadStart(w.path[1]) =>
                    /\ w.path = << w.path[1] >>
                    /\ w.n_steps = 0
                    /\ w.reason = 1

\* A walk from a dead vertex was counted, with a budget that allowed steps.
C14_Witness ==
    /\ Called
    /\ max_walk >= 1
    /\ \E i \in DOMAIN walks : DeadStart(walks[i].path[1])
    /\ stop_reasons[2] >= 1

\* The visits recorded so far, over all vertices.
TotalVisits ==
    SumUpTo([v \in Verts |-> Len(visit_orders[v])], NVerts - 1)

\* C15, for a budget of at least one hop: the visits recorded in all are at
\* most n_walks * |from_inds| * max_walk, no single walk recording more than
\* max_walk of them.
C15_VisitsWithinBudget ==
    (Called /\ max_walk >= 1) =>
        /\ TotalVisits <= n_walks * Len(from_inds) * max_walk
        /\ \A i \in DOMAIN walks : Len(walks[i].path) <= max_walk

\* C18: to_markov_matrix(adj) divides every row of non-zero sum by its sum,
\* so that the row sums to 1 and its entries keep their proportions, returns
\* every row of zero sum as zeros, and divides by zero for no input.
C18_RowsNormalisedOrZero ==
    prob_mat /= << >> =>
        \A i \in Verts :
            LET total == SumUpTo(adj[i], NVerts - 1)
            IN  /\ \A j \in Verts : prob_mat[i][j].den /= 0
                /\ total /= 0 =>
                    /\ RowTotal(prob_mat[i]).num = RowTotal(prob_mat[i]).den
                    /\ \A j \in Verts :
                        prob_mat[i][j].num * total
                            = adj[i][j] * prob_mat[i][j].den
                /\ total = 0 =>
                    \A j \in Verts : prob_mat[i][j].num = 0

\* The matrix of a graph with a row of zeros and a row of unequal weights.
C18_Witness ==
    /\ prob_mat /= << >>
    /\ \E i \in Verts : SumUpTo(adj[i], NVerts - 1) = 0
    /\ \E i, j, k \in Verts :
        /\ 0 < adj[i][j]
        /\ adj[i][j] < adj[i][k]
        /\ prob_mat[i][j].num * adj[i][k] = prob_mat[i][k].num * adj[i][j]

\* C19: a call with no source vertices raises no error, simulates no walk and
\* returns no paths and visit lists that are all empty.
C19_EmptySourcesTolerated ==
    (Called /\ from_inds = << >>) =>
        /\ pc \in {"loop", "done"}
        /\ error = "none"
        /\ walks = << >>
        /\ draws = << >>
        /\ path = << >>
        /\ sm_paths = << >>
        /\ stop_reasons = << 0, 0, 0, 0 >>
        /\ \A v \in Verts : visit_orders[v] = << >>

\* A call with no source vertices returned; the fractions it printed are nan.
C19_Witness ==
    /\ pc = "done"
    /\ from_inds = << >>
    /\ \A r \in DOMAIN printed : printed[r] = Frac(0, 0)

\* The setup the spec calls invalid: a source that is a stop vertex, or a
\* negative hop budget.
InvalidSetup ==
    \/ \E i \in DOMAIN from_inds : from_inds[i] \in out_inds
    \/ max_walk < 0

\* C20: an invalid setup is rejected (with a ConfigurationError) before any
\* walk is simulated: a call with a source that is also a stop vertex, or
\* with a negative budget, never yields a path or a counted outcome.
C20_InvalidSetupRejected ==
    (Called /\ InvalidSetup) =>
        /\ walks = << >>
        /\ sm_paths = << >>
        /\ stop_reasons = << 0, 0, 0, 0 >>

\* C16: two runs of generate_random_walks with the same arguments and the
\* same seed, hence the same sequence of random draws, return the same paths
\* and the same visit lists (and count the same outcomes).
C16_SameSeedSameResult ==
    (first /= << >> /\ pc = "done") =>
        /\ sm_paths = first.sm_paths
        /\ visit_orders = first.visit_orders
        /\ stop_reasons = first.stop_reasons
        /\ walks = first.walks
        /\ seed = << >>

\* A call that drew two different values and returned two paths was repeated.
C16_Witness ==
    /\ first /= << >>
    /\ pc = "done"
    /\ Len(first.sm_paths) >= 2
    /\ \E i, j \in DOMAIN draws : draws[i] /= draws[j]

\* C17: with allow_loops=False every generated path visits each vertex at most
\* once: len(path) == len(set(path)).
C17_NoLoopsNoRepeats ==
    (rw.status \in {"walking", "stopped"} /\ ~rw.allow_loops) =>
        Len(rw.traversal_) = Cardinality(Visited(rw.traversal_))

\* A path without loops that ended at a vertex whose only edges lead back to
\* vertices already on the path.
C17_Witness ==
    /\ rw.status = "stopped"
    /\ ~rw.allow_loops
    /\ Len(rw.traversal_) >= 2
    /\ rw.outcome = "dead-end"
    /\ Support(prob_mat[Last(rw.traversal_)]) /= {}

\* ------------------------------------------------------- claims, continued
\* The nodes of the tree under the root (detached objects are not part of it).
RECURSIVE Under(_, _)
Under(t, n) ==
    {n} \cup UNION {Under(t, t[n].children[k]) : k \in DOMAIN t[n].children}

\* C21: a node becomes a leaf or an internal node once and stays so: after
\* any sequence of fit calls that returned, a second fit of a fitted node
\* included, a node has children iff its most recent fit selected 2
\* components (which it can only on more than min_split_samples rows), and
\* then exactly two.
C21_ChildrenIffLastFitSplit ==
    (origin \in {"fit", "refit"} /\ stack = << >> /\ fit_error = "none") =>
        \A n \in Under(tree, 0) :
            LET split == /\ FitsModel(tree[n].n_samples_, min_split_samples)
                         /\ tree[n].n_components_ = 2
            IN  /\ tree[n].children /= << >> <=> split
                /\ split => Len(tree[n].children) = 2

C23_WalkWithinBudget ==
    (Called /\ max_walk >= 0) =>
        /\ pc = "walk" =>
            /\ n_steps <= max_walk + 1
            /\ Len(path) = n_steps + 1
        /\ \A i \in DOMAIN walks :
            /\ walks[i].n_steps <= max_walk + 1
            /\ Len(walks[i].path) <= max_walk + 2

\* A finished walk used the whole budget of a call with max_walk >= 1.
C23_Witness ==
    /\ Called
    /\ max_walk >= 1
    /\ \E i \in DOMAIN walks :
        /\ walks[i].n_steps = max_walk + 1
        /\ Len(walks[i].path) = max_walk + 2

\* The walk was counted as ended at a stop vertex.
Stopped(w) == w.reason = 0

\* The paths of the walks simulated so far that ended at a stop vertex.
StoppedPaths ==
    LET kept == SelectSeq(walks, Stopped)
    IN  [i \in DOMAIN kept |-> kept[i].path]

\* The path leaves s, ends at a stop vertex, passes neither a stop vertex nor
\* a dead vertex before, and takes only transitions of positive probability.
GoodPath(p, s) ==
    /\ p[1] = s
    /\ Last(p) \in out_inds
    /\ \A k \in 1 .. (Len(p) - 1) :
        /\ p[k] \notin out_inds
        /\ p[k] \notin dead_inds
        /\ prob_mat[p[k]][p[k + 1]].den > 0
        /\ prob_mat[p[k]][p[k + 1]].num > 0

\* C24: with return_stuck = False, in generate_random_walks and in
\* generate_random_walks_fast alike, the paths returned are exactly those of
\* the walks that ended at a stop vertex, in order (no dead or truncated walk
\* is among them), and every such path starts at the source of its pair,
\* ends in out_inds, has no stop or dead vertex before its last node and
\* takes only transitions of positive probability.
C24_ReturnedPathsReachStop ==
    ((Called \/ pc \in {"fast_loop", "fast_walk", "fast_done"})
        /\ ~return_stuck) =>
        /\ sm_paths = StoppedPaths
        /\ \A i \in DOMAIN walks :
            walks[i].reason = 0 =>
                GoodPath(walks[i].path, Tasks(from_inds, n_walks)[i])

\* A call returned a path of several nodes and left out a dead or truncated
\* walk.
ReturnedSome ==
    /\ ~return_stuck
    /\ \E i \in DOMAIN sm_paths : Len(sm_paths[i]) >= 2
    /\ \E i \in DOMAIN walks : walks[i].reason \in {1, 2}

\* generate_random_walks did so, and so did generate_random_walks_fast.
C24_Witness ==
    /\ pc = "fast_done"
    /\ ReturnedSome
    /\ \E i \in DOMAIN first.sm_paths : Len(first.sm_paths[i]) >= 2
    /\ \E i \in DOMAIN first.walks : first.walks[i].reason \in {1, 2}

RECURSIVE PathsLength(_, _)
\* The summed length of the paths i, i+1, ... of a list.
PathsLength(paths, i) ==
    IF i > Len(paths) THEN 0
    ELSE Len(paths[i]) + PathsLength(paths, i + 1)

\* The paths of all the walks simulated, returned or not.
SimulatedPaths == [i \in DOMAIN walks |-> walks[i].path]

\* The number of entries of all the lists of visit_orders.
Entries(vo) == SumUpTo([v \in Verts |-> Len(vo[v])], NVerts - 1)

\* C25: when generate_random_walks has returned, visit_orders[v] holds one
\* entry for every occurrence of v in any simulated walk, the dead and the
\* truncated ones included, in the order the walks were made, each the
\* 1-based position of the occurrence in its path; the number of entries is
\* the summed length of all simulated paths.
C25_VisitsOfAllWalks ==
    pc = "done" =>
        /\ visit_orders = Sequential(NoVisits(prob_mat), SimulatedPaths, 1)
        /\ Entries(visit_orders) = PathsLength(SimulatedPaths, 1)

\* A call returned whose visit_orders has more entries than its returned
\* paths have nodes, a walk of several nodes not being returned.
C25_Witness ==
    /\ pc = "done"
    /\ Entries(visit_orders) > PathsLength(sm_paths, 1)
    /\ sm_paths /= << >>
    /\ \E i \in DOMAIN walks :
        /\ ~Keeps(walks[i].reason)
        /\ Len(walks[i].path) >= 2

\* C26: called with the arguments and the draws of a call of
\* generate_random_walks(return_stuck=False) that returned,
\* generate_random_walks_fast returns too, and returns the same list of
\* paths in the same order and the same visit_orders (stated for the calls
\* with max_walk >= 1 that returned some path).
C26_FastEqualsPlain ==
    (pc \in {"fast_done", "fast_raised"}
        /\ max_walk >= 1 /\ first.sm_paths /= << >>) =>
        /\ pc = "fast_done"
        /\ sm_paths = first.sm_paths
        /\ visit_orders = first.visit_orders

\* C27: every child a split of fit creates holds strictly fewer samples than
\* its parent (the reason given for the recursion of fit being bounded by the
\* number of samples).
C27_ChildrenStrictlySmaller ==
    origin = "fit" =>
        \A n \in Nodes :
            (tree[n].fitted /\ tree[n].parent /= None) =>
                tree[n].n_samples_ < tree[tree[n].parent].n_samples_

\* What build_linkage must leave alone in a node.
Shape(node) ==
    [name |-> node.name, parent |-> node.parent, children |-> node.children,
     n_samples_ |-> node.n_samples_]

\* C28: on a tree that fit built, a call of build_linkage right after another
\* one with the same argument ends as that one did and returns the same rows
\* and the same labels, the _ind and _n_clusters the first call left on the
\* nodes notwithstanding; and no call changes the parent, the children, the
\* name or the n_samples_ of any node.
C28_BuildLinkageIdempotent ==
    LinkedFitTree =>
        /\ \A n \in DOMAIN link.t : Shape(link.t[n]) = Shape(link.before[n])
        /\ (link.prev /= NoResult /\ link.prev.fit_tree
                /\ link.prev.bic_distance = link.bic_distance) =>
            /\ link.status = link.prev.status
            /\ link.linkages = link.prev.linkages
            /\ link.labels = link.prev.labels

\* A second call returned a table of two rows or more, on nodes that carry
\* the indices of the first call.
C28_Witness ==
    /\ LinkedFitTree
    /\ link.prev /= NoResult
    /\ link.prev.fit_tree
    /\ ~link.bic_distance
    /\ ~link.prev.bic_distance
    /\ link.status = "ok"
    /\ Len(link.linkages) >= 2
    /\ \E n \in DOMAIN link.before : link.before[n].ind /= None

\* The query is the point set fit was given, every row once.
IsTrainingSet(Xq, X) ==
    /\ Len(Xq) = Cardinality(X)
    /\ {Xq[i] : i \in DOMAIN Xq} = X

\* C29: predict on the point set that was passed to fit returns, for every
\* training point, the name of the leaf whose samples contained the point
\* during fit, so that as many points carry a leaf's name as the leaf has
\* samples.
C29_TrainingPointsGetFitLeaf ==
    (PredictedFitTree /\ fit_error = "none"
        /\ IsTrainingSet(pred.X, pred.t[0].X)) =>
        /\ pred.status = "ok"
        /\ \A i \in DOMAIN pred.X :
            \E n \in LeafNodes(pred.t) :
                /\ pred.vals[i] = pred.t[n].name
                /\ pred.X[i] \in pred.t[n].X
        /\ \A n \in Under(pred.t, 0) :
            pred.t[n].children = << >> =>
                Cardinality({i \in DOMAIN pred.vals :
                    pred.vals[i] = pred.t[n].name}) = pred.t[n].n_samples_

\* C30 as stated: build_linkage(bic_distance=True) raises
\* NotImplementedError on every tree that fit built, and no row is emitted.
C30_BicAlwaysRaises ==
    (LinkedFitTree /\ link.bic_distance) =>
        /\ link.status = "NotImplementedError"
        /\ link.linkages = << >>

\* C30, amended: build_linkage(bic_distance=True) emits no row on any tree
\* that fit built; where the root has children it raises NotImplementedError
\* at the first pair, and where the root is a leaf it returns, with an empty
\* table and no label.
C30_BicRaisesAtFirstPair ==
    (LinkedFitTree /\ link.bic_distance) =>
        /\ link.linkages = << >>
        /\ link.pairs = << >>
        /\ IF link.t[0].children = << >>
           THEN link.status = "ok" /\ link.labels = << >>
           ELSE /\ link.status = "NotImplementedError"
                /\ link.failed = PairsInOrder(link.t)[1]

\* The call raised on a tree of two splits or more.
C30_Witness ==
    /\ LinkedFitTree
    /\ link.bic_distance
    /\ link.status = "NotImplementedError"
    /\ Cardinality(InternalNodes(link.t)) >= 2

====
